---- MODULE Spec2Model ----
(***************************************************************************)
(* A model of matchms.Scores (src/matchms/Scores.py): the score matrix     *)
(* engine that fills an n_rows x n_cols matrix of similarity scores, either *)
(* pair by pair (calculate_sequential) or in one vectorized call           *)
(* (calculate_parallel), hands out copies of it (scores) and iterates over  *)
(* it with a cursor kept in the engine (__iter__ / __next__).               *)
(***************************************************************************)
EXTENDS Integers, Sequences, FiniteSets, TLC

\* ------------------------------------------------------------------ bounds

\* Largest len(references) and len(queries).
MaxN == 2

\* Largest number of cell overwrites a caller performs on one matrix returned
\* by the scores property.
MaxOverwrites == 2

\* --------------------------------------------------------------- the state

VARIABLES
    pc,                  \* "new": before __init__; "raised": __init__ raised; "ready": engine built
    args,                \* the arguments given to __init__
    n_rows, n_cols,      \* self.n_rows, self.n_cols
    references, queries, \* self.references[:, 0], self.queries[0, :] (0-based arrays)
    similarity_function, \* self.similarity_function
    is_symmetric,        \* self.is_symmetric
    _scores,             \* self._scores: the address of the matrix object
    _index,              \* self._index: the iteration cursor
    heap,                \* the matrix objects, by address
    held,                \* the address of the matrix a caller got from scores ("null": none)
    overwrites,          \* number of cell overwrites the caller did on the held matrix
    op,                  \* the last operation called, as its call path
    outcome,             \* how it ended: "returned", or the exception raised
    n_compute,           \* calls of compute_scores made by the last operation
    n_batch,             \* calls of compute_scores_parallel made by the last operation
    hint,                \* whether the last batch call was given is_symmetric
    fail_at,             \* the call of the similarity function that raised (0: none)
    prev,                \* the engine's matrix when the last calculation started
    log,                 \* the cell stores of the last calculation, in order
    yielded,             \* the tuples __next__ returned since the pass began
    pass_start,          \* the cursor when the pass began (-1: the matrix changed since)
    exhausted,           \* the pass ended with StopIteration
    last_pass,           \* the tuples of the pass before this one
    last_valid,          \* that pass ran from cursor 0 to exhaustion on the present matrix
    audit                \* whether calculations are put on record (n_compute .. log)

vars == <<pc, args, n_rows, n_cols, references, queries, similarity_function,
          is_symmetric, _scores, _index, heap, held, overwrites, op, outcome,
          n_compute, n_batch, hint, fail_at, prev, log, yielded,
          pass_start, exhausted, last_pass, last_valid, audit>>

engine == <<n_rows, n_cols, references, queries, similarity_function, is_symmetric>>
caller == <<held, overwrites>>
calls == <<n_compute, n_batch, hint, fail_at, prev, log>>
passes == <<yielded, pass_start, exhausted, last_pass, last_valid>>

\* ------------------------------------------------------------ value space

\* Python's None, the content of every cell of numpy.empty(..., dtype="object").
NONE == -1

\* A cell holds a scalar score or a tuple of score components.
Scalar(x) == [is_tuple |-> FALSE, s |-> x, t |-> <<>>]
Tuple(xs) == [is_tuple |-> TRUE, s |-> NONE, t |-> xs]
None == Scalar(NONE)

Cells(shape) == (0 .. shape[1] - 1) \X (0 .. shape[2] - 1)

\* numpy.empty([r, c], dtype="object")
numpy_empty(r, c) == [shape |-> <<r, c>>, data |-> [p \in Cells(<<r, c>>) |-> None]]

\* An address that holds no object.
NoObject == [shape |-> <<0, 0>>, data |-> [p \in {} |-> None]]

Addr == {"a1", "a2", "a3"}

\* numpy.asarray(items).reshape(...), read back as a 0-based array
asarray(items) == [i \in 0 .. Len(items) - 1 |-> items[i + 1]]

\* A variant that walks the matrix column by column.
unravel_index_columns(index, shape) == <<index % shape[1], index \div shape[1]>>

\* numpy.unravel_index(index, shape) for a row-major 2-D shape
unravel_index(index, shape) == <<index \div shape[2], index % shape[2]>>

size(m) == m.shape[1] * m.shape[2]

InRange(m, i, j) == i < m.shape[1] /\ j < m.shape[2]

setitem(m, i, j, v) == [m EXCEPT !.data[<<i, j>>] = v]


\* --------------------------------------------------- the similarity function

\* A similarity function: whether it is a ParallelSimilarityFunction, whether
\* its compute_scores_parallel signature names is_symmetric, and whether its
\* scores are tuples (score, n_matching) or scalars.
SimilarityFunctions ==
    {f \in [parallel : BOOLEAN, takes_is_symmetric : BOOLEAN, tuples : BOOLEAN] :
        f.takes_is_symmetric => f.parallel}

\* similarity_function.compute_scores(reference, query): an opaque value that
\* tells the pair (reference, query) from the pair (query, reference).
compute_scores(sim, reference, query) ==
    LET x == 10 * reference + query
    IN  IF sim.tuples THEN Tuple(<<x, reference>>) ELSE Scalar(x)

\* similarity_function.compute_scores_parallel(refs, qs[, is_symmetric]): a
\* matrix of the shape the function chooses to return.
compute_scores_parallel(sim, shape) ==
    [shape |-> shape,
     data  |-> [p \in Cells(shape) |-> compute_scores(sim, p[1] + 1, p[2] + 1)]]

\* ------------------------------------------------------------ construction

Kinds == {"list", "tuple", "ndarray", "set", "dict"}

Items(n) == [k \in 1 .. n |-> k]

Containers == [kind : Kinds, items : {Items(n) : n \in 0 .. MaxN}]

Arguments ==
    [references : Containers, queries : Containers,
     similarity_function : SimilarityFunctions, is_symmetric : BOOLEAN]

\* The parameters _validate_input_arguments declares.
ValidateParameters == <<"references", "queries">>

\* Scores._validate_input_arguments(*call): binding the call's arguments to
\* the declared parameters comes first, then the two assertions.
_validate_input_arguments(call) ==
    IF Len(call) # Len(ValidateParameters) THEN "TypeError"
    ELSE IF call[1].kind \notin {"list", "tuple", "ndarray"} THEN "AssertionError"
    ELSE IF call[2].kind \notin {"list", "tuple", "ndarray"} THEN "AssertionError"
    ELSE "ok"

\* The call __init__ makes.
ValidateCall(a) == <<a.references, a.queries, a.similarity_function>>

\* The assignments of __init__ that follow the validation.
InitFields(a) ==
    /\ n_rows = Len(a.references.items)
    /\ n_cols = Len(a.queries.items)
    /\ references = asarray(a.references.items)
    /\ queries = asarray(a.queries.items)
    /\ similarity_function = a.similarity_function
    /\ is_symmetric = a.is_symmetric
    /\ _scores = "a1"
    /\ heap = [x \in Addr |-> IF x = "a1"
                              THEN numpy_empty(Len(a.references.items), Len(a.queries.items))
                              ELSE NoObject]
    /\ _index = 0

NoEngine ==
    /\ n_rows = 0 /\ n_cols = 0
    /\ references = asarray(<<>>) /\ queries = asarray(<<>>)
    /\ similarity_function = [parallel |-> FALSE, takes_is_symmetric |-> FALSE, tuples |-> FALSE]
    /\ is_symmetric = FALSE
    /\ _scores = "a1"
    /\ heap = [x \in Addr |-> NoObject]
    /\ _index = 0

NoCalculation ==
    /\ n_compute = 0 /\ n_batch = 0 /\ hint = FALSE
    /\ fail_at = 0 /\ prev = NoObject /\ log = <<>>

NoCall ==
    /\ op = <<>> /\ outcome = "none"
    /\ NoCalculation
    /\ held = "null" /\ overwrites = 0
    /\ yielded = <<>> /\ pass_start = 0 /\ exhausted = FALSE
    /\ last_pass = <<>> /\ last_valid = FALSE

\* Before construction: the arguments are chosen, no engine exists.
InitNew ==
    /\ pc = "new"
    /\ audit = TRUE
    /\ args \in Arguments
    /\ NoEngine
    /\ NoCall

\* Scores.__init__(references, queries, similarity_function, is_symmetric)
__init__ ==
    /\ pc = "new"
    /\ LET r == _validate_input_arguments(ValidateCall(args))
       IN  IF r # "ok"
           THEN /\ pc' = "raised"
                /\ outcome' = r
                /\ UNCHANGED <<engine, _scores, heap, _index>>
           ELSE /\ pc' = "ready"
                /\ outcome' = "returned"
                /\ InitFields(args)'
    /\ op' = <<"__init__">>
    /\ UNCHANGED <<args, caller, calls, passes, audit>>

NextNew == __init__

SpecNew == InitNew /\ [][NextNew]_vars

\* ------------------------------------------------------------- calculation

\* The engine as the assignments of __init__ (after its validation call)
\* leave it, built from two lists: the engine keeps nothing of the kind of
\* container it was given.
ReadyArguments ==
    {a \in Arguments : a.references.kind = "list" /\ a.queries.kind = "list"}

Ready ==
    /\ pc = "ready"
    /\ args \in ReadyArguments
    /\ InitFields(args)
    /\ NoCall

\* Every calculation is put on record.
Init == Ready /\ audit = TRUE

\* No calculation is put on record: only the engine's own fields tell what
\* the calculations did.
InitUnaudited == Ready /\ audit = FALSE

\* What a calculation puts on record.
Record(x, nothing) == IF audit THEN x ELSE nothing

\* A variant that takes one large dimension for enough.
_chose_parallel_implementation_either ==
    IF ~similarity_function.parallel THEN FALSE
    ELSE IF n_rows > 1 \/ n_cols > 1 THEN TRUE
    ELSE FALSE

\* Scores._chose_parallel_implementation()
_chose_parallel_implementation ==
    IF ~similarity_function.parallel THEN FALSE
    ELSE IF n_rows > 1 /\ n_cols > 1 THEN TRUE
    ELSE FALSE

\* A variant that starts every row at the first query.
first_query_zero(i_ref) == 0

\* The index of the first query the inner loop of calculate_sequential
\* visits in row i_ref.
first_query(i_ref) == IF is_symmetric THEN i_ref ELSE 0

\* One calculation as it runs: the matrix, the calls made, the stores done.
Running(m) == [m |-> m, outcome |-> "running", n_compute |-> 0, log |-> <<>>]

\* self._scores[i][j] = v, by the run's latest compute_scores call
store(run, i, j, v) ==
    [run EXCEPT !.m = setitem(@, i, j, v),
                !.log = Append(@, <<i, j, run.n_compute>>)]

\* A variant that leaves the mirror cell alone.
mirror_skipped(run, i_ref, i_query) == run

\* self._scores[i_query][i_ref] = self._scores[i_ref][i_query]
mirror(run, i_ref, i_query) ==
    IF ~InRange(run.m, i_query, i_ref)
    THEN [run EXCEPT !.outcome = "IndexError"]
    ELSE store(run, i_query, i_ref, run.m.data[<<i_ref, i_query>>])

\* A variant that empties the matrix when compute_scores raises.
raised_clearing(run) ==
    [run EXCEPT !.outcome = "ComputationFailure",
                !.m = numpy_empty(run.m.shape[1], run.m.shape[2])]

\* What a raising compute_scores call does to the run.
raised(run) == [run EXCEPT !.outcome = "ComputationFailure"]

\* The double loop of calculate_sequential, from pair (i_ref, i_query) on; the
\* fa-th compute_scores call raises. The right-hand side of the store (the
\* compute_scores call) is evaluated before the target cell is looked up.
RECURSIVE sequential_loop(_, _, _, _)
sequential_loop(run, i_ref, i_query, fa) ==
    IF run.outcome # "running" THEN run
    ELSE IF i_ref >= n_rows THEN [run EXCEPT !.outcome = "returned"]
    ELSE IF i_query >= n_cols
         THEN sequential_loop(run, i_ref + 1, first_query(i_ref + 1), fa)
    ELSE LET called == [run EXCEPT !.n_compute = @ + 1]
             v == compute_scores(similarity_function, references[i_ref], queries[i_query])
         IN  IF called.n_compute = fa
             THEN raised(called)
             ELSE IF ~InRange(called.m, i_ref, i_query)
             THEN [called EXCEPT !.outcome = "IndexError"]
             ELSE LET stored == store(called, i_ref, i_query, v)
                  IN  sequential_loop(IF is_symmetric THEN mirror(stored, i_ref, i_query)
                                                      ELSE stored,
                                      i_ref, i_query + 1, fa)

\* The body of calculate_sequential, reached by call path `path`.
sequential(path, fa) ==
    LET run == sequential_loop(Running(heap[_scores]), 0, first_query(0), fa)
    IN  /\ heap' = [heap EXCEPT ![_scores] = run.m]
        /\ outcome' = run.outcome
        /\ n_compute' = Record(run.n_compute, 0)
        /\ n_batch' = 0
        /\ hint' = FALSE
        /\ fail_at' = Record(IF run.outcome = "ComputationFailure" THEN fa ELSE 0, 0)
        /\ log' = Record(run.log, <<>>)
        /\ prev' = Record(heap[_scores], NoObject)
        /\ op' = path
        /\ UNCHANGED _scores

\* "is_symmetric" in str(inspect.signature(compute_scores_parallel))
signature_has_is_symmetric == similarity_function.takes_is_symmetric

\* The body of calculate_parallel, reached by call path `path`: one batch
\* call, whose result self._scores is bound to. The old matrix object is
\* dropped (its address is free again) unless the caller still refers to it.
parallel(path, fa, shape) ==
    LET returned == compute_scores_parallel(similarity_function, shape)
        target == IF held = _scores
                  THEN CHOOSE a \in Addr : a \notin {_scores, held}
                  ELSE _scores
    IN  /\ n_batch' = Record(1, 0)
        /\ n_compute' = 0
        /\ hint' = Record(signature_has_is_symmetric, FALSE)
        /\ prev' = Record(heap[_scores], NoObject)
        /\ op' = path
        /\ IF fa = 1
           THEN /\ outcome' = "ComputationFailure"
                /\ fail_at' = Record(1, 0)
                /\ log' = <<>>
                /\ UNCHANGED <<heap, _scores>>
           ELSE /\ outcome' = "returned"
                /\ fail_at' = 0
                /\ log' = Record([k \in 1 .. size(returned) |->
                                    <<unravel_index(k - 1, shape)[1],
                                      unravel_index(k - 1, shape)[2], 1>>], <<>>)
                /\ _scores' = target
                /\ heap' = [heap EXCEPT ![target] = returned]

\* The shapes compute_scores_parallel may return for this engine: the right
\* one, one row short, one column too many.
Shapes ==
    {s \in {<<n_rows, n_cols>>, <<n_rows - 1, n_cols>>, <<n_rows, n_cols + 1>>} : s[1] >= 0}

\* A calculation changes the matrix under any pass in progress.
PassBroken ==
    /\ yielded' = <<>>
    /\ pass_start' = -1
    /\ exhausted' = FALSE
    /\ last_pass' = <<>>
    /\ last_valid' = FALSE

\* Scores.calculate()
calculate ==
    /\ pc = "ready"
    /\ IF _chose_parallel_implementation
       THEN \E fa \in 0 .. 1, shape \in Shapes :
                parallel(<<"calculate", "calculate_parallel">>, fa, shape)
       ELSE \E fa \in 0 .. n_rows * n_cols :
                sequential(<<"calculate", "calculate_sequential">>, fa)
    /\ PassBroken
    /\ UNCHANGED <<pc, args, engine, _index, caller, audit>>

\* Scores.calculate_sequential(), called directly
calculate_sequential ==
    /\ pc = "ready"
    /\ \E fa \in 0 .. n_rows * n_cols : sequential(<<"calculate_sequential">>, fa)
    /\ PassBroken
    /\ UNCHANGED <<pc, args, engine, _index, caller, audit>>

\* Scores.calculate_parallel(), called directly on an engine whose
\* similarity function has compute_scores_parallel
calculate_parallel ==
    /\ pc = "ready"
    /\ similarity_function.parallel
    /\ \E fa \in 0 .. 1, shape \in Shapes : parallel(<<"calculate_parallel">>, fa, shape)
    /\ PassBroken
    /\ UNCHANGED <<pc, args, engine, _index, caller, audit>>

Next ==
    \/ calculate
    \/ calculate_sequential
    \/ calculate_parallel

Spec == Init /\ [][Next]_vars

\* --------------------------------------------------------------- iteration

\* A variant that starts every pass at the first cell.
cursor_after_iter_reset(index) == 0

\* self._index once __iter__ has returned self
cursor_after_iter(index) == index

\* result if isinstance(result, tuple) else (result,)
as_tuple(result) == IF result.is_tuple THEN result.t ELSE <<result.s>>

\* Calling anything but a calculation leaves no calculation to report on.
NotACalculation ==
    /\ n_compute' = 0 /\ n_batch' = 0 /\ hint' = FALSE
    /\ fail_at' = 0 /\ prev' = NoObject /\ log' = <<>>

\* Scores.__iter__(): a new pass begins where the cursor stands.
__iter__ ==
    /\ pc = "ready"
    /\ _index' = cursor_after_iter(_index)
    /\ op' = <<"__iter__">>
    /\ outcome' = "returned"
    /\ yielded' = <<>>
    /\ pass_start' = _index'
    /\ exhausted' = FALSE
    /\ last_pass' = yielded
    /\ last_valid' = (exhausted /\ pass_start = 0)
    /\ NotACalculation
    /\ UNCHANGED <<pc, args, engine, _scores, heap, caller, audit>>

\* Scores.__next__(). A call made after StopIteration, without __iter__ in
\* between, begins a new pass as well.
__next__ ==
    /\ pc = "ready"
    /\ LET m == heap[_scores]
           rc == unravel_index(_index, m.shape)
           start == IF exhausted THEN _index ELSE pass_start
           sofar == IF exhausted THEN <<>> ELSE yielded
       IN  /\ pass_start' = start
           /\ last_pass' = IF exhausted THEN yielded ELSE last_pass
           /\ last_valid' = IF exhausted THEN pass_start = 0 ELSE last_valid
           /\ IF _index < size(m)
              THEN /\ _index' = _index + 1
                   /\ exhausted' = FALSE
                   /\ IF rc[1] \in DOMAIN references /\ rc[2] \in DOMAIN queries
                      THEN /\ outcome' = "returned"
                           /\ yielded' = IF start < 0 THEN <<>>
                                         ELSE Append(sofar, <<references[rc[1]], queries[rc[2]]>>
                                                            \o as_tuple(m.data[rc]))
                      ELSE /\ outcome' = "IndexError"
                           /\ yielded' = sofar
              ELSE /\ _index' = 0
                   /\ outcome' = "StopIteration"
                   /\ exhausted' = TRUE
                   /\ yielded' = sofar
    /\ op' = <<"__next__">>
    /\ NotACalculation
    /\ UNCHANGED <<pc, args, engine, _scores, heap, caller, audit>>

\* Iteration, over a matrix that calculate() may fill, refill or leave
\* partly filled at any moment.
NextIter ==
    \/ calculate
    \/ __iter__
    \/ __next__

SpecIter == InitUnaudited /\ [][NextIter]_vars

\* ------------------------------------------------------ the scores property

\* A variant that hands out the engine's own matrix.
scores_uncopied == [addr |-> _scores, heap |-> heap]

\* Scores.scores: self._scores.copy(), a new matrix object with the same
\* cells (it takes the place of the copy the caller held before, if any).
scores ==
    LET a == IF held \notin {"null", _scores} THEN held
             ELSE CHOOSE x \in Addr : x # _scores
    IN  [addr |-> a, heap |-> [heap EXCEPT ![a] = heap[_scores]]]

\* The caller reads the scores property and keeps what it returns.
read_scores ==
    /\ pc = "ready"
    /\ held' = scores.addr
    /\ heap' = scores.heap
    /\ overwrites' = 0
    /\ op' = <<"scores">>
    /\ outcome' = "returned"
    /\ NotACalculation
    /\ UNCHANGED <<pc, args, engine, _scores, _index, passes, audit>>

\* The value a caller writes, one that compute_scores never returns.
CallerValue == Scalar(0)

\* The caller overwrites cell p of the matrix it got from scores: any cell
\* first, then the cells that follow it (row-major).
overwrite(p) ==
    /\ pc = "ready"
    /\ held # "null"
    /\ overwrites < MaxOverwrites
    /\ p \in Cells(heap[held].shape)
    /\ heap[held].data[p] # CallerValue
    /\ overwrites > 0 =>
          \E q \in Cells(heap[held].shape) :
              /\ heap[held].data[q] = CallerValue
              /\ q[1] * heap[held].shape[2] + q[2] + 1 = p[1] * heap[held].shape[2] + p[2]
    /\ heap' = [heap EXCEPT ![held] = setitem(@, p[1], p[2], CallerValue)]
    /\ overwrites' = overwrites + 1
    /\ op' = <<"overwrite">>
    /\ outcome' = "returned"
    /\ NotACalculation
    /\ UNCHANGED <<pc, args, engine, _scores, _index, held, passes, audit>>

\* The cells a matrix handed out by scores can have.
CopyCells == (0 .. MaxN) \X (0 .. MaxN + 1)

\* A caller that reads scores and writes into what it got, around any
\* number of calculate() calls.
NextCopy ==
    \/ calculate
    \/ read_scores
    \/ \E p \in CopyCells : overwrite(p)

SpecCopy == InitUnaudited /\ [][NextCopy]_vars

\* ------------------------------------------------- properties of calculation

Matrix == heap[_scores]

ShapeOK(m) == m.shape = <<n_rows, n_cols>>

EngineCells == Cells(<<n_rows, n_cols>>)

\* The operation the caller invoked, and the method that did the work.
Called(name) == Len(op) > 0 /\ op[1] = name
Ran(name) == Len(op) > 0 /\ op[Len(op)] = name

\* The pairs the naive strategy visits, and how many it visits before (i, j).
Visited == {p \in EngineCells : is_symmetric => p[2] >= p[1]}
Rank(p) == Cardinality({q \in Visited : q[1] < p[1] \/ (q[1] = p[1] /\ q[2] < p[2])})

\* The cells the first k visited pairs account for, and the pair behind each.
Done(k) == {p \in Visited : Rank(p) < k}
Source(p, k) ==
    IF p \in Done(k) THEN p
    ELSE IF is_symmetric /\ <<p[2], p[1]>> \in Done(k) THEN <<p[2], p[1]>>
    ELSE <<-1, -1>>

\* The computations that stored into cell p during the last calculation.
Fillers(p) == {log[e][3] : e \in {x \in DOMAIN log : log[x][1] = p[1] /\ log[x][2] = p[2]}}

BatchCase == similarity_function.parallel /\ n_rows > 1 /\ n_cols > 1

\* C1: calculate() runs the batched strategy (one compute_scores_parallel
\* call, no compute_scores call) exactly when the similarity function is
\* batch-capable and n_rows > 1 and n_cols > 1; otherwise it runs the naive
\* strategy and makes no compute_scores_parallel call.
C1_StrategySelection ==
    Called("calculate") =>
        /\ Ran("calculate_parallel") <=> BatchCase
        /\ (n_batch = 1 /\ n_compute = 0) <=> BatchCase
        /\ ~BatchCase => (Ran("calculate_sequential") /\ n_batch = 0)

\* A batch-capable function on a 2 x 1 engine: calculate() went the naive way.
C1_Witness ==
    /\ Called("calculate")
    /\ similarity_function.parallel /\ n_rows > 1 /\ n_cols = 1
    /\ Ran("calculate_sequential") /\ n_compute = n_rows

\* C2: with is_symmetric and references identical to queries (an n x n
\* matrix), calculate_sequential makes exactly n(n+1)/2 compute_scores calls
\* and returns with matrix[i, j] = matrix[j, i] for all i, j.
C2_SymmetricHalf ==
    (/\ Ran("calculate_sequential")
     /\ is_symmetric /\ n_rows = n_cols /\ references = queries
     /\ ShapeOK(prev)
     /\ outcome # "ComputationFailure")
    => /\ outcome = "returned"
       /\ 2 * n_compute = n_rows * (n_rows + 1)
       /\ \A p \in EngineCells : Matrix.data[p] = Matrix.data[<<p[2], p[1]>>]

C2_Witness ==
    /\ Ran("calculate_sequential")
    /\ is_symmetric /\ n_rows = n_cols /\ n_rows >= 2 /\ references = queries
    /\ ShapeOK(prev)
    /\ outcome = "returned" /\ n_compute < n_rows * n_rows

\* C6: a matrix returned by compute_scores_parallel whose shape is not
\* (n_rows, n_cols) makes calculate_parallel raise ShapeMismatch and is not
\* installed; after a successful calculate_parallel the matrix has shape
\* (n_rows, n_cols).
C6_ShapeChecked ==
    Ran("calculate_parallel") =>
        /\ outcome = "returned" => ShapeOK(Matrix)
        /\ outcome = "ShapeMismatch" => Matrix = prev

\* C7: after calculate() completes successfully every cell of the
\* n_rows x n_cols matrix is filled, each by exactly one computation of that
\* call.
C7_FilledOnce ==
    (Called("calculate") /\ outcome = "returned") =>
        \A p \in EngineCells :
            /\ InRange(Matrix, p[1], p[2])
            /\ Matrix.data[p] # None
            /\ Cardinality(Fillers(p)) = 1

\* C8: when the k-th compute_scores call of calculate_sequential raises, no
\* further call is made, the method does not return, and the matrix holds
\* the results of the first k-1 pairs (row-major, references outer), with
\* their mirrors in symmetric mode, and its prior contents everywhere else.
C8_FailureLeavesPrefix ==
    (Ran("calculate_sequential") /\ outcome = "ComputationFailure") =>
        /\ fail_at >= 1
        /\ n_compute = fail_at
        /\ Matrix.shape = prev.shape
        /\ \A p \in Cells(prev.shape) :
              LET src == Source(p, fail_at - 1)
              IN  Matrix.data[p] =
                    IF src = <<-1, -1>> THEN prev.data[p]
                    ELSE compute_scores(similarity_function,
                                        references[src[1]], queries[src[2]])

\* The third call raised on an engine that had been filled before: two
\* fresh results in place, the rest as it was.
C8_Witness ==
    /\ Ran("calculate_sequential") /\ outcome = "ComputationFailure"
    /\ fail_at = 3 /\ Len(log) >= 2
    /\ \E p \in Cells(prev.shape) : prev.data[p] # None

Contract10 ==
    /\ Ran("calculate_sequential")
    /\ is_symmetric /\ n_rows >= 1 /\ n_cols >= 1 /\ n_rows # n_cols
    /\ ShapeOK(prev)
    /\ outcome # "ComputationFailure"

\* The mirror store into row n_rows was the one out of range: the last store
\* done is the one into cell [0, n_rows].
FailedOnMirror ==
    /\ outcome = "IndexError"
    /\ Len(log) >= 1
    /\ log[Len(log)][1] = 0 /\ log[Len(log)][2] = n_rows

\* C10 as stated: with is_symmetric and n_rows # n_cols calculate_sequential
\* never returns with every cell filled; n_rows < n_cols ends in an
\* out-of-range error on the mirror store into row n_rows, n_rows > n_cols
\* returns with every cell of rows n_cols..n_rows-1 unset.
C10_Original ==
    Contract10 =>
        /\ ~(outcome = "returned" /\ \A p \in EngineCells : Matrix.data[p] # None)
        /\ n_rows < n_cols => FailedOnMirror
        /\ n_rows > n_cols =>
              /\ outcome = "returned"
              /\ \A p \in EngineCells : p[1] >= n_cols => Matrix.data[p] = None

\* C10 amended: with is_symmetric and n_rows # n_cols calculate_sequential
\* never returns having stored into every cell; n_rows < n_cols ends in an out-of-range
\* error on the mirror store into row n_rows, n_rows > n_cols returns
\* without a store into rows n_cols..n_rows-1, whose cells keep what they
\* held before the call.
C10_Amended ==
    Contract10 =>
        /\ ~(outcome = "returned" /\ \A p \in EngineCells : Fillers(p) # {})
        /\ n_rows < n_cols => FailedOnMirror
        /\ n_rows > n_cols =>
              /\ outcome = "returned"
              /\ \A p \in EngineCells : p[1] >= n_cols =>
                    (Fillers(p) = {} /\ Matrix.data[p] = prev.data[p])

\* A 2 x 1 symmetric engine filled by an earlier calculate_parallel: the
\* call returned and row 1 still holds the earlier value.
C10_Witness ==
    /\ Contract10 /\ n_rows > n_cols /\ outcome = "returned"
    /\ \E p \in EngineCells : p[1] >= n_cols /\ Matrix.data[p] # None

\* --------------------------------------------------- properties of iteration

NCells == n_rows * n_cols

FullyComputed == ShapeOK(Matrix) /\ \A p \in EngineCells : Matrix.data[p] # None

\* The tuple for the k-th cell (from 0) in row-major order: its reference,
\* its query, then its score, component by component.
CellTuple(k) ==
    LET r == k \div n_cols
        c == k % n_cols
        v == Matrix.data[<<r, c>>]
    IN  <<references[r], queries[c]>> \o (IF v.is_tuple THEN v.t ELSE <<v.s>>)

IsPrefix(a, b) == Len(a) <= Len(b) /\ \A k \in 1 .. Len(a) : a[k] = b[k]

\* C3: a pass over a fully computed engine that starts at cursor 0 yields the
\* n_rows * n_cols cell tuples in row-major order, then signals exhaustion;
\* the pass after it yields the same sequence; with no rows or no columns
\* the first step signals exhaustion.
C3_IterationComplete ==
    (FullyComputed /\ pass_start = 0) =>
        /\ Len(yielded) <= NCells
        /\ \A k \in 1 .. Len(yielded) : yielded[k] = CellTuple(k - 1)
        /\ Ran("__next__") => outcome \in {"returned", "StopIteration"}
        /\ exhausted => Len(yielded) = NCells
        /\ ~exhausted => _index = Len(yielded)
        /\ last_valid => IsPrefix(yielded, last_pass)
        /\ (last_valid /\ exhausted) => yielded = last_pass

\* A second pass over a 2 x 2 engine of tuple scores has just ended.
C3_Witness ==
    /\ FullyComputed /\ pass_start = 0
    /\ n_rows >= 2 /\ n_cols >= 2 /\ similarity_function.tuples
    /\ exhausted /\ last_valid /\ Len(last_pass) = NCells

\* The passes C9 speaks of: over an engine of n_rows * n_cols cells, begun
\* with the cursor somewhere in it.
Pass9 == ShapeOK(Matrix) /\ 0 <= pass_start /\ pass_start <= NCells

C9_PassFromCursor ==
    Pass9 =>
        /\ \A k \in 1 .. Len(yielded) : yielded[k] = CellTuple(pass_start + k - 1)
        /\ exhausted => Len(yielded) = NCells - pass_start

C9_IterKeepsCursor == __iter__ => _index' = _index

C9_ResetOnlyAtEnd ==
    (ShapeOK(Matrix) /\ _index <= NCells /\ _index # 0 /\ _index' = 0) =>
        (_index = NCells /\ op' = <<"__next__">> /\ outcome' = "StopIteration")

\* C9: asking for a new iteration leaves the cursor where it is: a pass begun
\* after k steps of an abandoned one yields cell k first and N - k tuples in
\* all; the cursor goes back to 0 only on a step taken with cursor = N.
C9_NoResetOnIter ==
    /\ []C9_PassFromCursor
    /\ [][C9_IterKeepsCursor]_vars
    /\ [][C9_ResetOnlyAtEnd]_vars

\* A pass begun at cursor k, 0 < k < N, has ended after N - k tuples.
C9_Witness ==
    /\ ShapeOK(Matrix)
    /\ 0 < pass_start /\ pass_start < NCells
    /\ exhausted /\ Len(yielded) = NCells - pass_start
    /\ yielded[1] = CellTuple(pass_start)

\* ------------------------------------------- properties of the scores property

C4_OverwriteLeavesEngine ==
    (op' = <<"overwrite">> /\ overwrites' = overwrites + 1) =>
        (_scores' = _scores /\ heap'[_scores'] = heap[_scores])

C4_ReadGivesEngineCells ==
    op' = <<"scores">> =>
        (heap'[held'] = heap[_scores] /\ heap'[_scores'] = heap[_scores])

\* C4: scores returns an independent copy: no overwrite of a cell of the
\* returned matrix changes the engine's matrix, and a read of scores returns
\* the engine's cells, the same as before the overwrites.
C4_ScoresIsACopy ==
    /\ [][C4_OverwriteLeavesEngine]_vars
    /\ [][C4_ReadGivesEngineCells]_vars

\* The caller has overwritten two cells of a computed matrix's copy.
C4_Witness ==
    /\ op = <<"overwrite">> /\ overwrites >= 2
    /\ held # "null" /\ held # _scores
    /\ heap[held] # Matrix
    /\ \E p \in EngineCells : Matrix.data[p] # None

\* ------------------------------------------------ properties of construction

RecognizedKinds == {"list", "tuple", "ndarray"}

Recognized == args.references.kind \in RecognizedKinds /\ args.queries.kind \in RecognizedKinds

\* C5: construction fails with InvalidArgument (the failed assertion) exactly
\* when references or queries is no list, tuple or array; otherwise it
\* completes, with n_rows = len(references), n_cols = len(queries), an
\* all-unset n_rows x n_cols matrix and cursor 0.
C5_Construction ==
    op = <<"__init__">> =>
        /\ (pc = "raised" /\ outcome = "AssertionError") <=> ~Recognized
        /\ Recognized =>
              /\ pc = "ready"
              /\ n_rows = Len(args.references.items)
              /\ n_cols = Len(args.queries.items)
              /\ Matrix = numpy_empty(n_rows, n_cols)
              /\ _index = 0

====
